---- MODULE Spec2Model ----
(***************************************************************************)
(* Two notebook pipelines of aml-notebook-tutorials:                       *)
(*   - customer lifetime value: cleaning, period assignment, RFM           *)
(*     aggregation and the label self-join (specification SpecCLV);        *)
(*   - movie recommendations: action counts, weighted raw ratings and      *)
(*     their normalisation to a 0..10 scale (specification SpecRec).       *)
(* A DataFrame is a sequence of records (rows in order); every notebook    *)
(* cell is one action and pc / rpc is the next cell to execute.  csv is    *)
(* the file OnlineRetail.csv, which no cell writes; logged is what the     *)
(* notebook records about excluded rows (it has no statement that does).   *)
(* rerun tells that the data prep cells are being executed a second time   *)
(* in the same kernel and prev_final is the labelled table of the first    *)
(* execution.  local_run and run are the states of the training runs that  *)
(* the notebooks submit.                                                   *)
(***************************************************************************)
EXTENDS Integers, Sequences, FiniteSets, TLC

VARIABLES csv, logged, pc, data, clean_data, rfm_data, rfm_data_final,
          rerun, prev_final, split, local_run, fitted_model,
          rpc, mdata, counts, agg_data, heap, user_agg_data, pos,
          raw_ratings, max_rating, ratings,
          run, model_file, algo, train_ratings,
          cluster, cpu_cluster, target, reruns, first

clvVars == <<csv, logged, pc, data, clean_data, rfm_data, rfm_data_final,
             rerun, prev_final, split, local_run, fitted_model>>
recVars == <<rpc, mdata, counts, agg_data, heap, user_agg_data, pos,
             raw_ratings, max_rating, ratings, run, model_file, algo,
             train_ratings, cluster, cpu_cluster, target, reruns, first>>
vars == <<csv, logged, pc, data, clean_data, rfm_data, rfm_data_final,
          rerun, prev_final, split, local_run, fitted_model,
          rpc, mdata, counts, agg_data, heap, user_agg_data, pos,
          raw_ratings, max_rating, ratings,
          run, model_file, algo, train_ratings,
          cluster, cpu_cluster, target, reruns, first>>

(***************************************************************************)
(* Bounds of the model.                                                    *)
(***************************************************************************)
MaxRows == 2

MaxEvents == 3

(***************************************************************************)
(* Generic helpers.                                                        *)
(***************************************************************************)
Range(s) == {s[i] : i \in DOMAIN s}

\* A missing value (numpy NaN), distinct from every number the model uses.
NaN == 0 - 1000000000

\* All sequences over S of length at most n.
SeqsUpTo(S, n) == UNION {[1..k -> S] : k \in 0..n}

(***************************************************************************)
(* datetime: dates are proleptic Gregorian ordinals, timestamps are        *)
(* minutes (ordinal * MinutesPerDay + minute of the day).                  *)
(***************************************************************************)
MinutesPerDay == 24 * 60

IsLeap(y) == (y % 4 = 0 /\ y % 100 # 0) \/ y % 400 = 0

DaysInMonth(y, m) ==
    IF m = 2 THEN (IF IsLeap(y) THEN 29 ELSE 28)
    ELSE IF m \in {4, 6, 9, 11} THEN 30 ELSE 31

RECURSIVE DaysBeforeMonth(_, _)
DaysBeforeMonth(y, m) ==
    IF m = 1 THEN 0 ELSE DaysBeforeMonth(y, m - 1) + DaysInMonth(y, m - 1)

DaysBeforeYear(y) ==
    (y - 1) * 365 + ((y - 1) \div 4) - ((y - 1) \div 100) + ((y - 1) \div 400)

\* dt.date(y, m, d)
Date(y, m, d) == DaysBeforeYear(y) + DaysBeforeMonth(y, m) + d

\* A pandas Timestamp of day (y, m, d) at `minute` minutes after midnight.
Timestamp(y, m, d, minute) == Date(y, m, d) * MinutesPerDay + minute

\* x.date(): the date portion of a timestamp.
DateOf(x) == x \div MinutesPerDay

\* A datetime.date compared with a timestamp column is coerced to midnight.
Midnight(d) == d * MinutesPerDay

(***************************************************************************)
(* Customer lifetime value notebook: the cells.                            *)
(***************************************************************************)
\* Mutant: the rows without a CustomerID stay.
DropMissingCustomer_KeepAll(df) == df

\* data = data[np.isnan(data.CustomerID) == False]
DropMissingCustomer(df) == SelectSeq(df, LAMBDA r : r.CustomerID # NaN)

WindowEnd == Date(2011, 12, 1)

\* Mutant: midnight of the window end passes.
DateWindow_Inclusive(df) ==
    SelectSeq(df, LAMBDA r : r.InvoiceDate <= Midnight(WindowEnd))

\* data = data[data['InvoiceDate'] < dt.date(2011, 12, 1)]
DateWindow(df) == SelectSeq(df, LAMBDA r : r.InvoiceDate < Midnight(WindowEnd))

\* Mutant: zero quantities and prices pass.
PositiveOnly_NonNegative(df) ==
    SelectSeq(SelectSeq(df, LAMBDA r : r.Quantity >= 0), LAMBDA r : r.UnitPrice >= 0)

\* data[data['Quantity'] > 0], then clean_data[clean_data['UnitPrice'] > 0]
PositiveOnly(df) ==
    SelectSeq(SelectSeq(df, LAMBDA r : r.Quantity > 0), LAMBDA r : r.UnitPrice > 0)

QuantityLimit == 30

UnitPriceLimit == 30

\* Mutant: the limit itself passes.
QuantityBelowLimit_Inclusive(df) ==
    SelectSeq(df, LAMBDA r : r.Quantity <= QuantityLimit)

\* clean_data = clean_data[clean_data['Quantity'] < 30]
QuantityBelowLimit(df) == SelectSeq(df, LAMBDA r : r.Quantity < QuantityLimit)

\* Mutant: the limit itself passes.
UnitPriceBelowLimit_Inclusive(df) ==
    SelectSeq(df, LAMBDA r : r.UnitPrice <= UnitPriceLimit)

\* clean_data = clean_data[clean_data['UnitPrice'] < 30]
UnitPriceBelowLimit(df) == SelectSeq(df, LAMBDA r : r.UnitPrice < UnitPriceLimit)

Cutoff == Date(2011, 6, 1)

\* Mutant: the cutoff day falls into period 1.
get_period_Inclusive(x) == IF DateOf(x) <= Cutoff THEN 1 ELSE 2

get_period(x) == IF DateOf(x) < Cutoff THEN 1 ELSE 2

\* Mutant: NextHalfYear without the increment.
WithPeriod_NoIncrement(df) ==
    [i \in DOMAIN df |->
        LET r == df[i]
            h == get_period(r.InvoiceDate)
        IN  [CustomerID |-> r.CustomerID, InvoiceNo |-> r.InvoiceNo,
             InvoiceDate |-> r.InvoiceDate, Quantity |-> r.Quantity,
             UnitPrice |-> r.UnitPrice, HalfYear |-> h,
             NextHalfYear |-> h, Amount |-> r.Quantity * r.UnitPrice]]

\* The HalfYear, NextHalfYear and Amount columns.
WithPeriod(df) ==
    [i \in DOMAIN df |->
        LET r == df[i]
            h == get_period(r.InvoiceDate)
        IN  [CustomerID |-> r.CustomerID, InvoiceNo |-> r.InvoiceNo,
             InvoiceDate |-> r.InvoiceDate, Quantity |-> r.Quantity,
             UnitPrice |-> r.UnitPrice, HalfYear |-> h,
             NextHalfYear |-> h + 1, Amount |-> r.Quantity * r.UnitPrice]]

(***************************************************************************)
(* groupby(['CustomerID', 'HalfYear', 'NextHalfYear'], as_index=False)     *)
(* .agg({'Amount': 'sum', 'InvoiceDate': 'max', 'InvoiceNo': 'nunique'}):  *)
(* one row per key present, rows sorted by key.                            *)
(***************************************************************************)
\* Mutant: the invoice number is a grouping column too.
GroupKey_WithInvoice(r) == <<r.CustomerID, r.HalfYear, r.InvoiceNo>>

GroupKey(r) == <<r.CustomerID, r.HalfYear, r.NextHalfYear>>

KeyLess(a, b) ==
    \/ a[1] < b[1]
    \/ a[1] = b[1] /\ a[2] < b[2]
    \/ a[1] = b[1] /\ a[2] = b[2] /\ a[3] < b[3]

RECURSIVE SortKeys(_)
SortKeys(S) ==
    IF S = {} THEN <<>>
    ELSE LET k == CHOOSE x \in S : \A y \in S \ {x} : KeyLess(x, y)
         IN  <<k>> \o SortKeys(S \ {k})

RECURSIVE SumAmount(_)
SumAmount(g) == IF g = <<>> THEN 0 ELSE Head(g).Amount + SumAmount(Tail(g))

\* Mutant: the earliest instead of the latest invoice date.
RECURSIVE MaxInvoiceDate_Min(_)
MaxInvoiceDate_Min(g) ==
    IF Len(g) = 1 THEN g[1].InvoiceDate
    ELSE LET m == MaxInvoiceDate_Min(Tail(g))
         IN  IF g[1].InvoiceDate < m THEN g[1].InvoiceDate ELSE m

RECURSIVE MaxInvoiceDate(_)
MaxInvoiceDate(g) ==
    IF Len(g) = 1 THEN g[1].InvoiceDate
    ELSE LET m == MaxInvoiceDate(Tail(g))
         IN  IF g[1].InvoiceDate > m THEN g[1].InvoiceDate ELSE m

\* Mutant: 'count' instead of 'nunique'.
NUniqueInvoiceNo_Count(g) == Len(g)

NUniqueInvoiceNo(g) == Cardinality({g[i].InvoiceNo : i \in DOMAIN g})

GroupRows(df, k) == SelectSeq(df, LAMBDA r : GroupKey(r) = k)

GroupByAgg(df) ==
    LET keys == SortKeys({GroupKey(df[i]) : i \in DOMAIN df})
    IN  [j \in DOMAIN keys |->
            LET g == GroupRows(df, keys[j])
            IN  [CustomerID |-> keys[j][1], HalfYear |-> keys[j][2],
                 NextHalfYear |-> keys[j][3], Amount |-> SumAmount(g),
                 InvoiceDate |-> MaxInvoiceDate(g),
                 InvoiceNo |-> NUniqueInvoiceNo(g)]]

RefDate1 == Date(2011, 5, 31)

RefDate2 == Date(2011, 11, 30)

\* Mutant: the reference dates of the two periods exchanged.
recency_ExchangedRef(x) ==
    LET ref_date == IF x.HalfYear = 1 THEN RefDate2 ELSE RefDate1
    IN  ref_date - DateOf(x.InvoiceDate)

recency(x) ==
    LET ref_date == IF x.HalfYear = 1 THEN RefDate1 ELSE RefDate2
    IN  ref_date - DateOf(x.InvoiceDate)

\* rfm_data['R'] = rfm_data.apply(recency, axis=1)
WithRecency(df) ==
    [i \in DOMAIN df |->
        LET x == df[i]
        IN  [CustomerID |-> x.CustomerID, HalfYear |-> x.HalfYear,
             NextHalfYear |-> x.NextHalfYear, Amount |-> x.Amount,
             InvoiceDate |-> x.InvoiceDate, InvoiceNo |-> x.InvoiceNo,
             R |-> recency(x)]]

\* rename InvoiceNo -> F, Amount -> M and keep the six RFM columns.
RenameSelect(df) ==
    [i \in DOMAIN df |->
        LET x == df[i]
        IN  [CustomerID |-> x.CustomerID, HalfYear |-> x.HalfYear,
             NextHalfYear |-> x.NextHalfYear, R |-> x.R,
             F |-> x.InvoiceNo, M |-> x.Amount]]

(***************************************************************************)
(* pd.merge(left, right, left_on=['CustomerID', 'NextHalfYear'],           *)
(* right_on=['CustomerID', 'HalfYear'], how='left', suffixes=['', '_Next'])*)
(* : for every left row in order, one output row per matching right row,   *)
(* or one row with missing right columns when nothing matches.             *)
(***************************************************************************)
Joined(l, r) ==
    [CustomerID |-> l.CustomerID, HalfYear |-> l.HalfYear,
     NextHalfYear |-> l.NextHalfYear, R |-> l.R, F |-> l.F, M |-> l.M,
     HalfYear_Next |-> r.HalfYear, NextHalfYear_Next |-> r.NextHalfYear,
     R_Next |-> r.R, F_Next |-> r.F, M_Next |-> r.M]

Unmatched(l) ==
    [CustomerID |-> l.CustomerID, HalfYear |-> l.HalfYear,
     NextHalfYear |-> l.NextHalfYear, R |-> l.R, F |-> l.F, M |-> l.M,
     HalfYear_Next |-> NaN, NextHalfYear_Next |-> NaN,
     R_Next |-> NaN, F_Next |-> NaN, M_Next |-> NaN]

\* Mutant: the join on CustomerID alone.
MergeMatches_CustomerOnly(l, right) ==
    SelectSeq(right, LAMBDA r : r.CustomerID = l.CustomerID)

\* Mutant: right_on HalfYear matched with the left HalfYear.
MergeMatches_SamePeriod(l, right) ==
    SelectSeq(right, LAMBDA r : r.CustomerID = l.CustomerID
                                /\ r.HalfYear = l.HalfYear)

MergeMatches(l, right) ==
    SelectSeq(right, LAMBDA r : r.CustomerID = l.CustomerID
                                /\ r.HalfYear = l.NextHalfYear)

\* Mutant: the merged rows are added to the table that is already there.
RECURSIVE MergeLeft_Append(_, _)
MergeLeft_Append(left, right) ==
    IF left = <<>> THEN rfm_data_final
    ELSE LET l == Head(left)
             ms == MergeMatches(l, right)
             out == IF ms = <<>> THEN <<Unmatched(l)>>
                    ELSE [j \in DOMAIN ms |-> Joined(l, ms[j])]
         IN  out \o MergeLeft_Append(Tail(left), right)

RECURSIVE MergeLeft(_, _)
MergeLeft(left, right) ==
    IF left = <<>> THEN <<>>
    ELSE LET l == Head(left)
             ms == MergeMatches(l, right)
             out == IF ms = <<>> THEN <<Unmatched(l)>>
                    ELSE [j \in DOMAIN ms |-> Joined(l, ms[j])]
         IN  out \o MergeLeft(Tail(left), right)

\* Mutant: the rows without a M_Next stay.
SelectDropMissing_KeepAll(df) ==
    [i \in DOMAIN df |->
        [R |-> df[i].R, F |-> df[i].F, M |-> df[i].M, M_Next |-> df[i].M_Next]]

\* rfm_data_final[['R', 'F', 'M', 'M_Next']], then the rows with a M_Next.
SelectDropMissing(df) ==
    SelectSeq([i \in DOMAIN df |->
                  [R |-> df[i].R, F |-> df[i].F, M |-> df[i].M,
                   M_Next |-> df[i].M_Next]],
              LAMBDA r : r.M_Next # NaN)

(***************************************************************************)
(* The input of read_csv: at most MaxRows transaction rows.  RFMRows vary  *)
(* customer, invoice, timestamp and amount of valid rows; EdgeRows vary    *)
(* what the cleaning cells look at.                                        *)
(***************************************************************************)
\* (CustomerID, InvoiceNo): an invoice belongs to one customer.
CustomerInvoices == {<<1, 1>>, <<1, 2>>, <<2, 3>>}

InvoiceDates ==
    {Timestamp(2011, 3, 1, 0), Timestamp(2011, 5, 31, 1439),
     Timestamp(2011, 6, 1, 0), Timestamp(2011, 6, 1, 720),
     Timestamp(2011, 7, 10, 0), Timestamp(2011, 11, 30, 1439),
     Timestamp(2011, 12, 1, 0)}

ValidQuantityPrice == {<<2, 5>>, <<1, 20>>}

EdgeQuantityPrice ==
    {<<0 - 1, 5>>, <<0, 5>>, <<29, 5>>, <<30, 5>>, <<31, 5>>,
     <<2, 0 - 1>>, <<2, 0>>, <<2, 29>>, <<2, 30>>, <<2, 31>>}

Row(c, n, t, qp) ==
    [CustomerID |-> c, InvoiceNo |-> n, InvoiceDate |-> t,
     Quantity |-> qp[1], UnitPrice |-> qp[2]]

RFMRows ==
    {Row(ci[1], ci[2], t, qp) : ci \in CustomerInvoices,
                                t \in InvoiceDates, qp \in ValidQuantityPrice}

EdgeRows ==
    {Row(1, 1, Timestamp(2011, 3, 1, 0), qp) : qp \in EdgeQuantityPrice}
    \cup {Row(NaN, 1, Timestamp(2011, 3, 1, 0), <<2, 5>>)}

InputRows == RFMRows \cup EdgeRows

\* first holds the results of the first execution of the rating cells once
\* one of them is executed again.
NoFirst == [agg |-> <<>>, raw |-> <<>>, max |-> 0]

RecIdle ==
    /\ run = "none" /\ model_file = FALSE /\ algo = "none"
    /\ train_ratings = <<>>
    /\ cluster = "absent" /\ cpu_cluster = "none" /\ target = "none"
    /\ reruns = 0 /\ first = NoFirst
    /\ rpc = "idle" /\ mdata = <<>> /\ counts = <<>> /\ agg_data = <<>>
    /\ heap = <<>> /\ user_agg_data = 0 /\ pos = 0
    /\ raw_ratings = <<>> /\ max_rating = 0 /\ ratings = <<>>

\* After pd.read_csv: the later variables are not assigned yet.
InitCLV ==
    /\ pc = "dropna"
    /\ csv \in SeqsUpTo(InputRows, MaxRows)
    /\ data = csv
    /\ logged = <<>>
    /\ rerun = FALSE /\ prev_final = <<>>
    /\ split = <<>> /\ local_run = "none" /\ fitted_model = "none"
    /\ clean_data = <<>>
    /\ rfm_data = <<>>
    /\ rfm_data_final = <<>>
    /\ RecIdle

CellDropMissing ==
    /\ pc = "dropna"
    /\ data' = DropMissingCustomer(data)
    /\ pc' = "window"
    /\ UNCHANGED <<clean_data, rfm_data, rfm_data_final>>
    /\ UNCHANGED <<csv, logged, rerun, prev_final, split, local_run, fitted_model>>
    /\ UNCHANGED recVars

CellDateWindow ==
    /\ pc = "window"
    /\ data' = DateWindow(data)
    /\ pc' = "positive"
    /\ UNCHANGED <<clean_data, rfm_data, rfm_data_final>>
    /\ UNCHANGED <<csv, logged, rerun, prev_final, split, local_run, fitted_model>>
    /\ UNCHANGED recVars

CellPositive ==
    /\ pc = "positive"
    /\ clean_data' = PositiveOnly(data)
    /\ pc' = "quantity"
    /\ UNCHANGED <<data, rfm_data, rfm_data_final>>
    /\ UNCHANGED <<csv, logged, rerun, prev_final, split, local_run, fitted_model>>
    /\ UNCHANGED recVars

CellQuantity ==
    /\ pc = "quantity"
    /\ clean_data' = QuantityBelowLimit(clean_data)
    /\ pc' = "unitprice"
    /\ UNCHANGED <<data, rfm_data, rfm_data_final>>
    /\ UNCHANGED <<csv, logged, rerun, prev_final, split, local_run, fitted_model>>
    /\ UNCHANGED recVars

CellUnitPrice ==
    /\ pc = "unitprice"
    /\ clean_data' = UnitPriceBelowLimit(clean_data)
    /\ pc' = "period"
    /\ UNCHANGED <<data, rfm_data, rfm_data_final>>
    /\ UNCHANGED <<csv, logged, rerun, prev_final, split, local_run, fitted_model>>
    /\ UNCHANGED recVars

CellPeriod ==
    /\ pc = "period"
    /\ clean_data # <<>>
    /\ clean_data' = WithPeriod(clean_data)
    /\ pc' = "groupby"
    /\ UNCHANGED <<data, rfm_data, rfm_data_final>>
    /\ UNCHANGED <<csv, logged, rerun, prev_final, split, local_run, fitted_model>>
    /\ UNCHANGED recVars

\* DataFrame.apply(..., axis=1) of a frame without rows returns a frame, not
\* a column; whether assigning it to the Amount column raises depends on the
\* pandas version, so both outcomes are possible.
CellPeriodEmptyRaises ==
    /\ pc = "period"
    /\ clean_data = <<>>
    /\ pc' = "error"
    /\ UNCHANGED <<data, clean_data, rfm_data, rfm_data_final>>
    /\ UNCHANGED <<csv, logged, rerun, prev_final, split, local_run, fitted_model>>
    /\ UNCHANGED recVars

CellPeriodEmptyPasses ==
    /\ pc = "period"
    /\ clean_data = <<>>
    /\ pc' = "groupby"
    /\ UNCHANGED <<data, clean_data, rfm_data, rfm_data_final>>
    /\ UNCHANGED <<csv, logged, rerun, prev_final, split, local_run, fitted_model>>
    /\ UNCHANGED recVars

CellGroupBy ==
    /\ pc = "groupby"
    /\ rfm_data' = GroupByAgg(clean_data)
    /\ pc' = "recency"
    /\ UNCHANGED <<data, clean_data, rfm_data_final>>
    /\ UNCHANGED <<csv, logged, rerun, prev_final, split, local_run, fitted_model>>
    /\ UNCHANGED recVars

CellRecency ==
    /\ pc = "recency"
    /\ rfm_data # <<>>
    /\ rfm_data' = WithRecency(rfm_data)
    /\ pc' = "rename"
    /\ UNCHANGED <<data, clean_data, rfm_data_final>>
    /\ UNCHANGED <<csv, logged, rerun, prev_final, split, local_run, fitted_model>>
    /\ UNCHANGED recVars

CellRecencyEmptyRaises ==
    /\ pc = "recency"
    /\ rfm_data = <<>>
    /\ pc' = "error"
    /\ UNCHANGED <<data, clean_data, rfm_data, rfm_data_final>>
    /\ UNCHANGED <<csv, logged, rerun, prev_final, split, local_run, fitted_model>>
    /\ UNCHANGED recVars

CellRecencyEmptyPasses ==
    /\ pc = "recency"
    /\ rfm_data = <<>>
    /\ pc' = "rename"
    /\ UNCHANGED <<data, clean_data, rfm_data, rfm_data_final>>
    /\ UNCHANGED <<csv, logged, rerun, prev_final, split, local_run, fitted_model>>
    /\ UNCHANGED recVars

CellRename ==
    /\ pc = "rename"
    /\ rfm_data' = RenameSelect(rfm_data)
    /\ pc' = "merge"
    /\ UNCHANGED <<data, clean_data, rfm_data_final>>
    /\ UNCHANGED <<csv, logged, rerun, prev_final, split, local_run, fitted_model>>
    /\ UNCHANGED recVars

CellMerge ==
    /\ pc = "merge"
    /\ rfm_data_final' = MergeLeft(rfm_data, rfm_data)
    /\ pc' = "dropnext"
    /\ UNCHANGED <<data, clean_data, rfm_data>>
    /\ UNCHANGED <<csv, logged, rerun, prev_final, split, local_run, fitted_model>>
    /\ UNCHANGED recVars

CellDropMissingNext ==
    /\ pc = "dropnext"
    /\ rfm_data_final' = SelectDropMissing(rfm_data_final)
    /\ pc' = "done"
    /\ UNCHANGED <<data, clean_data, rfm_data>>
    /\ UNCHANGED <<csv, logged, rerun, prev_final, split, local_run, fitted_model>>
    /\ UNCHANGED recVars

NextCLV ==
    \/ CellDropMissing
    \/ CellDateWindow
    \/ CellPositive
    \/ CellQuantity
    \/ CellUnitPrice
    \/ CellPeriod
    \/ CellPeriodEmptyRaises
    \/ CellPeriodEmptyPasses
    \/ CellGroupBy
    \/ CellRecency
    \/ CellRecencyEmptyRaises
    \/ CellRecencyEmptyPasses
    \/ CellRename
    \/ CellMerge
    \/ CellDropMissingNext

SpecCLV == InitCLV /\ [][NextCLV]_vars

(***************************************************************************)
(* Movie recommendations notebook (the same statements are written to      *)
(* train.py).  A Python dict is a sequence of [key, val] entries in        *)
(* insertion order.  The per-pair counter dicts live in `heap` and are     *)
(* referred to by their index, because the loop variable user_agg_data     *)
(* keeps referring to the dict of an earlier iteration.                    *)
(***************************************************************************)
HasKey(d, k) == \E i \in DOMAIN d : d[i].key = k

Get(d, k) == d[CHOOSE i \in DOMAIN d : d[i].key = k].val

Put(d, k, v) ==
    IF HasKey(d, k)
    THEN [i \in DOMAIN d |-> IF d[i].key = k THEN [key |-> k, val |-> v] ELSE d[i]]
    ELSE Append(d, [key |-> k, val |-> v])

\* Action names in the order Python sorts them.
ActionsSorted == <<"addToCart", "buy", "details", "play">>

ActionRank(a) == CHOOSE i \in DOMAIN ActionsSorted : ActionsSorted[i] = a

EventKey(e) == <<e.MovieId, e.UserId, ActionRank(e.Action)>>

\* data.groupby(['MovieId', 'UserId', 'Action'])['Action'].count(): one entry
\* per (movie, user, action) present, in sorted index order.
GroupCount(df) ==
    LET keys == SortKeys({EventKey(df[i]) : i \in DOMAIN df})
    IN  [j \in DOMAIN keys |->
            [key |-> <<keys[j][1], keys[j][2], ActionsSorted[keys[j][3]]>>,
             val |-> Cardinality({i \in DOMAIN df : EventKey(df[i]) = keys[j]})]]

\* Mutant: a counter for every action name.
NewCounters_WithPlay == [buy |-> 0, addToCart |-> 0, details |-> 0, play |-> 0]

NewCounters == [buy |-> 0, addToCart |-> 0, details |-> 0]

\* Mutant: the else branch starts from a new movie dict.
AggBranch_FreshMovieDict(agg, hp, uad, i) ==
    LET hp1 == Append(hp, NewCounters)
    IN  [agg |-> Put(agg, i[1], <<[key |-> i[2], val |-> Len(hp1)]>>),
         heap |-> hp1, user_agg_data |-> Len(hp1)]

\* Mutant: the else branch makes new counters for every index entry.
AggBranch_AlwaysFresh(agg, hp, uad, i) ==
    IF ~HasKey(agg, i[1])
    THEN LET hp1 == Append(hp, NewCounters)
         IN  [agg |-> Put(agg, i[1], <<[key |-> i[2], val |-> Len(hp1)]>>),
              heap |-> hp1, user_agg_data |-> Len(hp1)]
    ELSE LET movie_agg_data == Get(agg, i[1])
             hp1 == Append(hp, NewCounters)
         IN  [agg |-> Put(agg, i[1], Put(movie_agg_data, i[2], Len(hp1))),
              heap |-> hp1, user_agg_data |-> Len(hp1)]

\* The body of `for i in counts.index` up to (not including) the += line:
\* the dicts and the heap after the if / else.
AggBranch(agg, hp, uad, i) ==
    IF ~HasKey(agg, i[1])
    THEN LET hp1 == Append(hp, NewCounters)
         IN  [agg |-> Put(agg, i[1], <<[key |-> i[2], val |-> Len(hp1)]>>),
              heap |-> hp1, user_agg_data |-> Len(hp1)]
    ELSE LET movie_agg_data == Get(agg, i[1])
             fresh == ~HasKey(movie_agg_data, i[2])
             hp1 == IF fresh THEN Append(hp, NewCounters) ELSE hp
             uad1 == IF fresh THEN Len(hp1) ELSE uad
         IN  [agg |-> Put(agg, i[1], Put(movie_agg_data, i[2], uad1)),
              heap |-> hp1, user_agg_data |-> uad1]

\* Mutant: details do not count.
weights_ZeroDetails == [buy |-> 100, addToCart |-> 50, details |-> 0]

\* Mutant: the weights of addToCart and details exchanged.
weights_Exchanged == [buy |-> 100, addToCart |-> 15, details |-> 50]

weights == [buy |-> 100, addToCart |-> 50, details |-> 15]

WeightKeys == <<"buy", "addToCart", "details">>

\* raw_rating of one counter dict: the loop over weights.keys().
RECURSIVE WeightedSum(_, _)
WeightedSum(c, ks) ==
    IF ks = <<>> THEN 0
    ELSE c[Head(ks)] * weights[Head(ks)] + WeightedSum(c, Tail(ks))

\* Mutant: the maximum is overwritten in every iteration.
UpdateMax_Latest(raw_rating, mx) == raw_rating

\* Mutant: the comparison of the running maximum reversed.
UpdateMax_Reversed(raw_rating, mx) == IF raw_rating < mx THEN raw_rating ELSE mx

\* if raw_rating > max_rating: max_rating = raw_rating
UpdateMax(raw_rating, mx) == IF raw_rating > mx THEN raw_rating ELSE mx

\* The (movie, user, counter reference) triples in the order the nested
\* loops over agg_data.keys() and agg_data[movie_key].keys() visit them.
RECURSIVE Pairs(_)
Pairs(agg) ==
    IF agg = <<>> THEN <<>>
    ELSE LET m == Head(agg)
         IN  [j \in DOMAIN m.val |-> <<m.key, m.val[j].key, m.val[j].val>>]
             \o Pairs(Tail(agg))

\* float(10) * RawRating / max_rating as the exact fraction num / den.
Normalize(raw, mx) == [num |-> 10 * raw, den |-> mx]

\* Mutant: every row is divided by the maximum of the rows up to it.
MakeRatings_RunningMax(rr, mx) ==
    [j \in DOMAIN rr |->
        [MovieId |-> rr[j][1], UserId |-> rr[j][2], RawRating |-> rr[j][3],
         Rating |-> Normalize(rr[j][3],
                              CHOOSE v \in {rr[k][3] : k \in 1..j} :
                                  \A k \in 1..j : rr[k][3] <= v)]]

MakeRatings(rr, mx) ==
    [j \in DOMAIN rr |->
        [MovieId |-> rr[j][1], UserId |-> rr[j][2], RawRating |-> rr[j][3],
         Rating |-> Normalize(rr[j][3], mx)]]

Movies == {1, 2}

Users == {1, 2}

Events ==
    {[MovieId |-> m, UserId |-> u, Action |-> a] :
        m \in Movies, u \in Users, a \in Range(ActionsSorted)}

CLVIdle ==
    /\ csv = <<>> /\ logged = <<>>
    /\ rerun = FALSE /\ prev_final = <<>>
    /\ split = <<>> /\ local_run = "none" /\ fitted_model = "none"
    /\ pc = "idle" /\ data = <<>> /\ clean_data = <<>>
    /\ rfm_data = <<>> /\ rfm_data_final = <<>>

InitRec ==
    /\ rpc = "counts"
    /\ mdata \in SeqsUpTo(Events, MaxEvents)
    /\ counts = <<>> /\ agg_data = <<>> /\ heap = <<>>
    /\ user_agg_data = 0 /\ pos = 0
    /\ raw_ratings = <<>> /\ max_rating = 0 /\ ratings = <<>>
    /\ run = "none" /\ model_file = FALSE /\ algo = "none"
    /\ train_ratings = <<>>
    /\ cluster = "absent" /\ cpu_cluster = "none" /\ target = "none"
    /\ reruns = 0 /\ first = NoFirst
    /\ CLVIdle

CellCounts ==
    /\ rpc = "counts"
    /\ counts' = GroupCount(mdata)
    /\ rpc' = "agg_start"
    /\ UNCHANGED <<mdata, agg_data, heap, user_agg_data, pos,
                   raw_ratings, max_rating, ratings>>
    /\ UNCHANGED <<run, model_file, algo, train_ratings>>
    /\ UNCHANGED <<cluster, cpu_cluster, target, reruns, first>>
    /\ UNCHANGED clvVars

\* agg_data = dict()
AggStart ==
    /\ rpc = "agg_start"
    /\ agg_data' = <<>>
    /\ pos' = 1
    /\ rpc' = "agg_loop"
    /\ UNCHANGED <<mdata, counts, heap, user_agg_data,
                   raw_ratings, max_rating, ratings>>
    /\ UNCHANGED <<run, model_file, algo, train_ratings>>
    /\ UNCHANGED <<cluster, cpu_cluster, target, reruns, first>>
    /\ UNCHANGED clvVars

\* One iteration of `for i in counts.index`.
AggIter ==
    /\ rpc = "agg_loop"
    /\ pos <= Len(counts)
    /\ LET i == counts[pos].key
           b == AggBranch(agg_data, heap, user_agg_data, i)
           ref == Get(Get(b.agg, i[1]), i[2])
       IN  /\ agg_data' = b.agg
           /\ user_agg_data' = b.user_agg_data
           /\ IF i[3] \in DOMAIN b.heap[ref]
              THEN /\ heap' = [b.heap EXCEPT ![ref][i[3]] = @ + counts[pos].val]
                   /\ pos' = pos + 1
                   /\ rpc' = rpc
              ELSE \* KeyError
                   /\ heap' = b.heap
                   /\ pos' = pos
                   /\ rpc' = "error"
    /\ UNCHANGED <<mdata, counts, raw_ratings, max_rating, ratings>>
    /\ UNCHANGED <<run, model_file, algo, train_ratings>>
    /\ UNCHANGED <<cluster, cpu_cluster, target, reruns, first>>
    /\ UNCHANGED clvVars

\* Mutant: the list of an earlier execution is kept.
RawListStart_Keep(rr) == rr

\* raw_ratings = []: the list after the assignment, whatever it was before.
RawListStart(rr) == <<>>

\* raw_ratings = [] ; max_rating = 0
RawStart ==
    /\ rpc = "agg_loop"
    /\ pos > Len(counts)
    /\ raw_ratings' = RawListStart(raw_ratings)
    /\ max_rating' = 0
    /\ pos' = 1
    /\ rpc' = "raw_loop"
    /\ UNCHANGED <<mdata, counts, agg_data, heap, user_agg_data, ratings>>
    /\ UNCHANGED <<run, model_file, algo, train_ratings>>
    /\ UNCHANGED <<cluster, cpu_cluster, target, reruns, first>>
    /\ UNCHANGED clvVars

\* One iteration of the nested loops over movie_key and user_key.
RawIter ==
    /\ rpc = "raw_loop"
    /\ pos <= Len(Pairs(agg_data))
    /\ LET p == Pairs(agg_data)[pos]
           raw_rating == WeightedSum(heap[p[3]], WeightKeys)
       IN  /\ max_rating' = UpdateMax(raw_rating, max_rating)
           /\ raw_ratings' = Append(raw_ratings, <<p[1], p[2], raw_rating>>)
    /\ pos' = pos + 1
    /\ UNCHANGED <<rpc, mdata, counts, agg_data, heap, user_agg_data, ratings>>
    /\ UNCHANGED <<run, model_file, algo, train_ratings>>
    /\ UNCHANGED <<cluster, cpu_cluster, target, reruns, first>>
    /\ UNCHANGED clvVars

CellNormalize ==
    /\ rpc = "raw_loop"
    /\ pos > Len(Pairs(agg_data))
    /\ ratings' = MakeRatings(raw_ratings, max_rating)
    /\ rpc' = "done"
    /\ UNCHANGED <<mdata, counts, agg_data, heap, user_agg_data, pos,
                   raw_ratings, max_rating>>
    /\ UNCHANGED <<run, model_file, algo, train_ratings>>
    /\ UNCHANGED <<cluster, cpu_cluster, target, reruns, first>>
    /\ UNCHANGED clvVars

NextRec ==
    \/ CellCounts
    \/ AggStart
    \/ AggIter
    \/ RawStart
    \/ RawIter
    \/ CellNormalize

SpecRec == InitRec /\ [][NextRec]_vars

(***************************************************************************)
(* Executing the count-aggregation cell or the raw-rating cell again, in   *)
(* the same kernel, once all rating cells have been executed.  The         *)
(* variables hold what the earlier executions left in them; the kernel     *)
(* executes one cell at a time, so a cell starts only between cells.       *)
(***************************************************************************)
MaxReruns == 2

\* agg_data as a Python value: the counter dicts in place of their
\* references.
Deref(agg, hp) ==
    [m \in DOMAIN agg |->
        [key |-> agg[m].key,
         val |-> [u \in DOMAIN agg[m].val |->
                    [key |-> agg[m].val[u].key,
                     val |-> hp[agg[m].val[u].val]]]]]

AggCellEnded == rpc = "agg_loop" /\ pos > Len(counts)

RawCellEnded == rpc = "raw_loop" /\ pos > Len(Pairs(agg_data))

\* A cell can be started again: every cell has been executed, and the
\* kernel is between two cells.
CanReexecute ==
    /\ reruns < MaxReruns
    /\ \/ rpc = "done"
       \/ reruns > 0 /\ (AggCellEnded \/ RawCellEnded)

\* The results of the first execution, recorded when a cell is executed
\* again for the first time.
Recorded ==
    IF reruns = 0
    THEN [agg |-> Deref(agg_data, heap), raw |-> raw_ratings,
          max |-> max_rating]
    ELSE first

\* The first statement of the count-aggregation cell: agg_data = dict()
ReexecAgg ==
    /\ CanReexecute
    /\ reruns' = reruns + 1
    /\ first' = Recorded
    /\ agg_data' = <<>>
    /\ pos' = 1
    /\ rpc' = "agg_loop"
    /\ UNCHANGED <<mdata, counts, heap, user_agg_data,
                   raw_ratings, max_rating, ratings>>
    /\ UNCHANGED <<run, model_file, algo, train_ratings>>
    /\ UNCHANGED <<cluster, cpu_cluster, target>>
    /\ UNCHANGED clvVars

\* The first statements of the raw-rating cell.
ReexecRaw ==
    /\ CanReexecute
    /\ reruns' = reruns + 1
    /\ first' = Recorded
    /\ raw_ratings' = RawListStart(raw_ratings)
    /\ max_rating' = 0
    /\ pos' = 1
    /\ rpc' = "raw_loop"
    /\ UNCHANGED <<mdata, counts, agg_data, heap, user_agg_data, ratings>>
    /\ UNCHANGED <<run, model_file, algo, train_ratings>>
    /\ UNCHANGED <<cluster, cpu_cluster, target>>
    /\ UNCHANGED clvVars

NextRecRerun ==
    \/ NextRec
    \/ ReexecAgg
    \/ ReexecRaw

\* Logs of two movies and two users in which one pair has two actions.
RerunEvents ==
    {[MovieId |-> 1, UserId |-> 1, Action |-> "buy"],
     [MovieId |-> 1, UserId |-> 1, Action |-> "details"],
     [MovieId |-> 1, UserId |-> 2, Action |-> "buy"],
     [MovieId |-> 2, UserId |-> 1, Action |-> "addToCart"]}

InitRecRerun ==
    /\ rpc = "counts"
    /\ mdata \in SeqsUpTo(RerunEvents, MaxEvents)
    /\ counts = <<>> /\ agg_data = <<>> /\ heap = <<>>
    /\ user_agg_data = 0 /\ pos = 0
    /\ raw_ratings = <<>> /\ max_rating = 0 /\ ratings = <<>>
    /\ run = "none" /\ model_file = FALSE /\ algo = "none"
    /\ train_ratings = <<>>
    /\ cluster = "absent" /\ cpu_cluster = "none" /\ target = "none"
    /\ reruns = 0 /\ first = NoFirst
    /\ CLVIdle

SpecRecRerun == InitRecRerun /\ [][NextRecRerun]_vars

(***************************************************************************)
(* Executing the data preparation cells of the customer lifetime value     *)
(* notebook a second time in the same kernel.  pd.read_csv reads the same  *)
(* file again; every other variable still holds what the first execution   *)
(* left in it.                                                             *)
(***************************************************************************)
CellReadCsv ==
    /\ pc = "done"
    /\ ~rerun
    /\ rerun' = TRUE
    /\ prev_final' = rfm_data_final
    /\ data' = csv
    /\ pc' = "dropna"
    /\ UNCHANGED <<clean_data, rfm_data, rfm_data_final>>
    /\ UNCHANGED <<csv, logged, split, local_run, fitted_model>>
    /\ UNCHANGED recVars

NextRerun ==
    \/ NextCLV
    \/ CellReadCsv

SpecRerun == InitCLV /\ [][NextRerun]_vars

(***************************************************************************)
(* Training.  A run is "running" from its submission until the service     *)
(* reports one of the Terminal states; the step that ends it is taken by   *)
(* the compute target, not by the notebook.                                *)
(***************************************************************************)
Terminal == {"completed", "failed"}

\* Whether a call that blocks on a run in this state returns control.
WaitOver_NoWait(status) == TRUE

WaitOver(status) == status \in Terminal

\* Mutant: the lookup of the cluster by name always raises.
LookupRaises_Always(c) == TRUE

\* ComputeTarget(workspace=ws, name=cpu_cluster_name) raises
\* ComputeTargetException when the workspace has no cluster of that name.
LookupRaises(c) == c = "absent"

\* The try branch: the cluster is found and used.
CellClusterFound ==
    /\ rpc = "done"
    /\ ~LookupRaises(cluster)
    /\ cpu_cluster' = "found"
    /\ rpc' = "cluster_wait"
    /\ UNCHANGED <<mdata, counts, agg_data, heap, user_agg_data, pos,
                   raw_ratings, max_rating, ratings>>
    /\ UNCHANGED <<run, model_file, algo, train_ratings>>
    /\ UNCHANGED <<cluster, target, reruns, first>>
    /\ UNCHANGED clvVars

\* The except branch: ComputeTarget.create starts the provisioning.
CellClusterCreate ==
    /\ rpc = "done"
    /\ LookupRaises(cluster)
    /\ cluster' = "creating"
    /\ cpu_cluster' = "created"
    /\ rpc' = "cluster_wait"
    /\ UNCHANGED <<mdata, counts, agg_data, heap, user_agg_data, pos,
                   raw_ratings, max_rating, ratings>>
    /\ UNCHANGED <<run, model_file, algo, train_ratings>>
    /\ UNCHANGED <<target, reruns, first>>
    /\ UNCHANGED clvVars

\* The provisioning ends, a step of the service.
ClusterReady ==
    /\ cluster = "creating"
    /\ cluster' = "ready"
    /\ UNCHANGED <<mdata, counts, agg_data, heap, user_agg_data, pos,
                   raw_ratings, max_rating, ratings>>
    /\ UNCHANGED <<rpc, run, model_file, algo, train_ratings>>
    /\ UNCHANGED <<cpu_cluster, target, reruns, first>>
    /\ UNCHANGED clvVars

ClusterFails ==
    /\ cluster = "creating"
    /\ cluster' = "failed"
    /\ UNCHANGED <<mdata, counts, agg_data, heap, user_agg_data, pos,
                   raw_ratings, max_rating, ratings>>
    /\ UNCHANGED <<rpc, run, model_file, algo, train_ratings>>
    /\ UNCHANGED <<cpu_cluster, target, reruns, first>>
    /\ UNCHANGED clvVars

\* The provisioning states at which cpu_cluster.wait_for_completion ends.
Provisioned == {"ready", "failed"}

ClusterWaitReturns ==
    /\ rpc = "cluster_wait"
    /\ cluster \in Provisioned
    /\ rpc' = "runconfig"
    /\ UNCHANGED <<mdata, counts, agg_data, heap, user_agg_data, pos,
                   raw_ratings, max_rating, ratings>>
    /\ UNCHANGED <<run, model_file, algo, train_ratings>>
    /\ UNCHANGED <<cluster, cpu_cluster, target, reruns, first>>
    /\ UNCHANGED clvVars

\* Whether the wait raises for a failed provisioning or prints the failure
\* and returns depends on the SDK version: both are possible.
ClusterWaitRaises ==
    /\ rpc = "cluster_wait"
    /\ cluster = "failed"
    /\ rpc' = "error"
    /\ UNCHANGED <<mdata, counts, agg_data, heap, user_agg_data, pos,
                   raw_ratings, max_rating, ratings>>
    /\ UNCHANGED <<run, model_file, algo, train_ratings>>
    /\ UNCHANGED <<cluster, cpu_cluster, target, reruns, first>>
    /\ UNCHANGED clvVars

\* run_amlcompute.target = cpu_cluster
CellRunConfig ==
    /\ rpc = "runconfig"
    /\ target' = cpu_cluster
    /\ rpc' = "submit"
    /\ UNCHANGED <<mdata, counts, agg_data, heap, user_agg_data, pos,
                   raw_ratings, max_rating, ratings>>
    /\ UNCHANGED <<run, model_file, algo, train_ratings>>
    /\ UNCHANGED <<cluster, cpu_cluster, reruns, first>>
    /\ UNCHANGED clvVars

\* train.py, run to its end on the log df: the statements of the rating
\* cells, the loops unrolled.  ok is FALSE when the += line raises KeyError.
RECURSIVE TrainAggLoop(_, _, _, _, _)
TrainAggLoop(cnt, k, agg, hp, uad) ==
    IF k > Len(cnt) THEN [ok |-> TRUE, agg |-> agg, heap |-> hp]
    ELSE LET i == cnt[k].key
             b == AggBranch(agg, hp, uad, i)
             ref == Get(Get(b.agg, i[1]), i[2])
         IN  IF i[3] \in DOMAIN b.heap[ref]
             THEN TrainAggLoop(cnt, k + 1, b.agg,
                               [b.heap EXCEPT ![ref][i[3]] = @ + cnt[k].val],
                               b.user_agg_data)
             ELSE [ok |-> FALSE, agg |-> b.agg, heap |-> b.heap]

RECURSIVE TrainRawLoop(_, _, _, _, _)
TrainRawLoop(ps, hp, k, rr, mx) ==
    IF k > Len(ps) THEN [raw_ratings |-> rr, max_rating |-> mx]
    ELSE LET raw_rating == WeightedSum(hp[ps[k][3]], WeightKeys)
         IN  TrainRawLoop(ps, hp, k + 1,
                          Append(rr, <<ps[k][1], ps[k][2], raw_rating>>),
                          UpdateMax(raw_rating, mx))

\* Mutant: train.py hands the raw ratings on as ratings.
TrainScript_RawAsRating(df) ==
    LET a == TrainAggLoop(GroupCount(df), 1, <<>>, <<>>, 0)
        r == TrainRawLoop(Pairs(a.agg), a.heap, 1, <<>>, 0)
    IN  [ok |-> a.ok,
         ratings |-> IF a.ok THEN MakeRatings(r.raw_ratings, 10) ELSE <<>>]

TrainScript(df) ==
    LET a == TrainAggLoop(GroupCount(df), 1, <<>>, <<>>, 0)
        r == TrainRawLoop(Pairs(a.agg), a.heap, 1, <<>>, 0)
    IN  [ok |-> a.ok,
         ratings |-> IF a.ok THEN MakeRatings(r.raw_ratings, r.max_rating)
                     ELSE <<>>]

\* run = experiment.submit(src): the call returns as soon as the run is
\* queued; wait_for_completion then blocks.
CellSubmit ==
    /\ rpc = "submit"
    /\ run' = "running"
    /\ rpc' = "wait"
    /\ UNCHANGED <<mdata, counts, agg_data, heap, user_agg_data, pos,
                   raw_ratings, max_rating, ratings, model_file, algo>>
    /\ UNCHANGED <<train_ratings, cluster, cpu_cluster, target, reruns, first>>
    /\ UNCHANGED clvVars

\* The run ends after train.py has run to its end on the cluster; the script
\* reads the log from the same address as the notebook.
RunCompletes ==
    /\ run = "running"
    /\ TrainScript(mdata).ok
    /\ run' = "completed"
    /\ train_ratings' = TrainScript(mdata).ratings
    /\ UNCHANGED <<rpc, mdata, counts, agg_data, heap, user_agg_data, pos,
                   raw_ratings, max_rating, ratings, model_file, algo>>
    /\ UNCHANGED <<cluster, cpu_cluster, target, reruns, first>>
    /\ UNCHANGED clvVars

RunFails ==
    /\ run = "running"
    /\ run' = "failed"
    /\ UNCHANGED <<rpc, mdata, counts, agg_data, heap, user_agg_data, pos,
                   raw_ratings, max_rating, ratings, model_file, algo>>
    /\ UNCHANGED <<train_ratings, cluster, cpu_cluster, target, reruns, first>>
    /\ UNCHANGED clvVars

\* Mutant: after a failed run the notebook goes back to the submission.
WaitOutcome_Resubmit(status) ==
    IF status = "failed" THEN "submit" ELSE "download"

\* Where the notebook continues when wait_for_completion ends: it raises
\* for a failed run (raise_on_error defaults to True) and the cells below
\* it are not executed.
WaitOutcome(status) ==
    IF status = "failed" THEN "error" ELSE "download"

WaitReturns ==
    /\ rpc = "wait"
    /\ WaitOver(run)
    /\ run # "failed"
    /\ rpc' = WaitOutcome(run)
    /\ UNCHANGED <<mdata, counts, agg_data, heap, user_agg_data, pos,
                   raw_ratings, max_rating, ratings, run, model_file, algo>>
    /\ UNCHANGED <<train_ratings, cluster, cpu_cluster, target, reruns, first>>
    /\ UNCHANGED clvVars

WaitRaises ==
    /\ rpc = "wait"
    /\ WaitOver(run)
    /\ run = "failed"
    /\ rpc' = WaitOutcome(run)
    /\ UNCHANGED <<mdata, counts, agg_data, heap, user_agg_data, pos,
                   raw_ratings, max_rating, ratings, run, model_file, algo>>
    /\ UNCHANGED <<train_ratings, cluster, cpu_cluster, target, reruns, first>>
    /\ UNCHANGED clvVars

CellDownload ==
    /\ rpc = "download"
    /\ model_file' = TRUE
    /\ rpc' = "load"
    /\ UNCHANGED <<mdata, counts, agg_data, heap, user_agg_data, pos,
                   raw_ratings, max_rating, ratings, run, algo>>
    /\ UNCHANGED <<train_ratings, cluster, cpu_cluster, target, reruns, first>>
    /\ UNCHANGED clvVars

CellLoad ==
    /\ rpc = "load"
    /\ model_file
    /\ algo' = "loaded"
    /\ rpc' = "finished"
    /\ UNCHANGED <<mdata, counts, agg_data, heap, user_agg_data, pos,
                   raw_ratings, max_rating, ratings, run, model_file>>
    /\ UNCHANGED <<train_ratings, cluster, cpu_cluster, target, reruns, first>>
    /\ UNCHANGED clvVars

NextRecTrain ==
    \/ NextRec
    \/ CellClusterFound
    \/ CellClusterCreate
    \/ ClusterReady
    \/ ClusterFails
    \/ ClusterWaitReturns
    \/ ClusterWaitRaises
    \/ CellRunConfig
    \/ CellSubmit
    \/ RunCompletes
    \/ RunFails
    \/ WaitReturns
    \/ WaitRaises
    \/ CellDownload
    \/ CellLoad

\* train_test_split(test_size=0.1): the test part has ceil(0.1 * n) of the
\* n rows and the training part the others.
TestSize(n) == (n + 9) \div 10

TrainSize(n) == n - TestSize(n)

CellSplit ==
    /\ pc = "done"
    /\ TrainSize(Len(rfm_data_final)) > 0
    /\ split' = [train |-> TrainSize(Len(rfm_data_final)),
                 test |-> TestSize(Len(rfm_data_final))]
    /\ pc' = "submit"
    /\ UNCHANGED <<csv, logged, data, clean_data, rfm_data, rfm_data_final,
                   rerun, prev_final, local_run, fitted_model>>
    /\ UNCHANGED recVars

\* train_test_split raises ValueError when the training part would be empty.
CellSplitRaises ==
    /\ pc = "done"
    /\ TrainSize(Len(rfm_data_final)) = 0
    /\ pc' = "error"
    /\ UNCHANGED <<csv, logged, data, clean_data, rfm_data, rfm_data_final,
                   rerun, prev_final, split, local_run, fitted_model>>
    /\ UNCHANGED recVars

\* local_run = experiment.submit(automl_config, show_output=True): the call
\* starts the run and blocks in it.
CellSubmitLocal ==
    /\ pc = "submit"
    /\ local_run' = "running"
    /\ pc' = "submitting"
    /\ UNCHANGED <<csv, logged, data, clean_data, rfm_data, rfm_data_final,
                   rerun, prev_final, split, fitted_model>>
    /\ UNCHANGED recVars

LocalRunCompletes ==
    /\ local_run = "running"
    /\ local_run' = "completed"
    /\ UNCHANGED <<csv, logged, pc, data, clean_data, rfm_data,
                   rfm_data_final, rerun, prev_final, split, fitted_model>>
    /\ UNCHANGED recVars

LocalRunFails ==
    /\ local_run = "running"
    /\ local_run' = "failed"
    /\ UNCHANGED <<csv, logged, pc, data, clean_data, rfm_data,
                   rfm_data_final, rerun, prev_final, split, fitted_model>>
    /\ UNCHANGED recVars

SubmitReturns ==
    /\ pc = "submitting"
    /\ WaitOver(local_run)
    /\ pc' = "get_output"
    /\ UNCHANGED <<csv, logged, data, clean_data, rfm_data, rfm_data_final,
                   rerun, prev_final, split, local_run, fitted_model>>
    /\ UNCHANGED recVars

\* Whether submit raises for a failed run or returns it depends on the SDK
\* version and on the failure: both are possible.
SubmitRaises ==
    /\ pc = "submitting"
    /\ WaitOver(local_run)
    /\ local_run = "failed"
    /\ pc' = "error"
    /\ UNCHANGED <<csv, logged, data, clean_data, rfm_data, rfm_data_final,
                   rerun, prev_final, split, local_run, fitted_model>>
    /\ UNCHANGED recVars

CellGetOutput ==
    /\ pc = "get_output"
    /\ local_run # "failed"
    /\ fitted_model' = "fitted"
    /\ pc' = "finished"
    /\ UNCHANGED <<csv, logged, data, clean_data, rfm_data, rfm_data_final,
                   rerun, prev_final, split, local_run>>
    /\ UNCHANGED recVars

\* A failed run has no best pipeline: get_output raises.
CellGetOutputRaises ==
    /\ pc = "get_output"
    /\ local_run = "failed"
    /\ pc' = "error"
    /\ UNCHANGED <<csv, logged, data, clean_data, rfm_data, rfm_data_final,
                   rerun, prev_final, split, local_run, fitted_model>>
    /\ UNCHANGED recVars

NextCLVTrain ==
    \/ NextCLV
    \/ CellSplit
    \/ CellSplitRaises
    \/ CellSubmitLocal
    \/ LocalRunCompletes
    \/ LocalRunFails
    \/ SubmitReturns
    \/ SubmitRaises
    \/ CellGetOutput
    \/ CellGetOutputRaises

\* Transaction files with which the labelled table can have the two rows
\* that a split needs: two customers, each with an invoice in both periods,
\* and one row that the filters drop.
MaxTrainRows == 4

TrainInputRows ==
    {Row(1, 1, Timestamp(2011, 3, 1, 0), <<2, 5>>),
     Row(1, 2, Timestamp(2011, 7, 10, 0), <<1, 20>>),
     Row(2, 3, Timestamp(2011, 3, 1, 0), <<2, 5>>),
     Row(2, 3, Timestamp(2011, 7, 10, 0), <<1, 20>>),
     Row(1, 1, Timestamp(2011, 3, 1, 0), <<0, 5>>)}

InitCLVTrain ==
    /\ pc = "dropna"
    /\ csv \in SeqsUpTo(TrainInputRows, MaxTrainRows)
    /\ data = csv
    /\ logged = <<>>
    /\ rerun = FALSE /\ prev_final = <<>>
    /\ split = <<>> /\ local_run = "none" /\ fitted_model = "none"
    /\ clean_data = <<>> /\ rfm_data = <<>> /\ rfm_data_final = <<>>
    /\ RecIdle

\* The workspace has the cluster already or it has not.
InitRecTrain ==
    /\ rpc = "counts"
    /\ mdata \in SeqsUpTo(Events, MaxEvents)
    /\ counts = <<>> /\ agg_data = <<>> /\ heap = <<>>
    /\ user_agg_data = 0 /\ pos = 0
    /\ raw_ratings = <<>> /\ max_rating = 0 /\ ratings = <<>>
    /\ run = "none" /\ model_file = FALSE /\ algo = "none"
    /\ train_ratings = <<>>
    /\ cluster \in {"absent", "ready"}
    /\ cpu_cluster = "none" /\ target = "none"
    /\ reruns = 0 /\ first = NoFirst
    /\ CLVIdle

InitTrain ==
    \/ InitCLVTrain
    \/ InitRecTrain

NextTrain ==
    \/ NextCLVTrain
    \/ NextRecTrain

SpecTrain == InitTrain /\ [][NextTrain]_vars

(***************************************************************************)
(* Properties of the customer lifetime value notebook (SpecCLV).           *)
(***************************************************************************)
\* The instants and days that the properties refer to.
CutoffInstant == Timestamp(2011, 6, 1, 0)

DayAfterCutoff == Timestamp(2011, 6, 2, 0)

WindowEndInstant == Timestamp(2011, 12, 1, 0)

LastDay1 == Date(2011, 5, 31)

LastDay2 == Date(2011, 11, 30)

\* Cells that have run once pc has one of these values.
AfterOutlierFilter ==
    {"period", "groupby", "recency", "rename", "merge", "dropnext", "done"}

AfterPeriod == {"groupby", "recency", "rename", "merge", "dropnext", "done"}

AfterGroupBy == {"recency", "rename", "merge", "dropnext", "done"}

AfterRecency == {"rename", "merge", "dropnext", "done"}

AfterRename == {"merge", "dropnext", "done"}

\* The indices of the filtered transactions of customer c in period h.
GroupIndices(c, h) ==
    {i \in DOMAIN clean_data :
        clean_data[i].CustomerID = c /\ clean_data[i].HalfYear = h}

RECURSIVE AmountOver(_)
AmountOver(I) ==
    IF I = {} THEN 0
    ELSE LET i == CHOOSE j \in I : TRUE
         IN  clean_data[i].Quantity * clean_data[i].UnitPrice
             + AmountOver(I \ {i})

\* The latest timestamp among the transactions with indices I.
LatestOver(I) ==
    CHOOSE t \in {clean_data[i].InvoiceDate : i \in I} :
        \A i \in I : clean_data[i].InvoiceDate <= t

\* C1: every row that survives the Quantity>0, UnitPrice>0, Quantity<30 and
\* UnitPrice<30 steps has 0 < Quantity < 30 and 0 < UnitPrice < 30.
C1_OutlierFilterBounds ==
    pc \in AfterOutlierFilter =>
        \A i \in DOMAIN clean_data :
            /\ 0 < clean_data[i].Quantity /\ clean_data[i].Quantity < 30
            /\ 0 < clean_data[i].UnitPrice /\ clean_data[i].UnitPrice < 30

\* The filter has kept a row next to the limit and dropped another row.
C1_Witness ==
    /\ pc = "period"
    /\ Len(clean_data) = 1
    /\ Len(data) = 2
    /\ clean_data[1].Quantity = 29

\* C2: for every RFM row, F is the number of distinct InvoiceNo values among
\* the filtered transactions of its (CustomerID, HalfYear) group and M is the
\* sum of Quantity * UnitPrice over exactly those transactions.
C2_FrequencyMonetary ==
    pc \in AfterRename =>
        \A j \in DOMAIN rfm_data :
            LET x == rfm_data[j]
                I == GroupIndices(x.CustomerID, x.HalfYear)
            IN  /\ x.F = Cardinality({clean_data[i].InvoiceNo : i \in I})
                /\ x.M = AmountOver(I)

\* A group of two transactions on one invoice next to nothing else.
C2_Witness ==
    /\ pc = "done"
    /\ \E j \in DOMAIN rfm_data :
          /\ rfm_data[j].F = 1
          /\ Cardinality(GroupIndices(rfm_data[j].CustomerID,
                                      rfm_data[j].HalfYear)) = 2
          /\ rfm_data[j].M = 30

\* The RFM rows that have a row of the same customer in the following period.
RowsWithNext ==
    SelectSeq(rfm_data,
              LAMBDA l : \E j \in DOMAIN rfm_data :
                            /\ rfm_data[j].CustomerID = l.CustomerID
                            /\ rfm_data[j].HalfYear = l.HalfYear + 1)

NextRowsOf(l) ==
    {j \in DOMAIN rfm_data :
        /\ rfm_data[j].CustomerID = l.CustomerID
        /\ rfm_data[j].HalfYear = l.HalfYear + 1}

\* C3: the rows of the labelled table are, in order, the RFM rows that have
\* an RFM row of the same customer in period + 1; there is exactly one such
\* row, M_Next is its M, and no M_Next is missing.
C3_LabelJoinComplete ==
    pc = "done" =>
        /\ Len(rfm_data_final) = Len(RowsWithNext)
        /\ \A i \in DOMAIN rfm_data_final :
              LET l == RowsWithNext[i]
                  o == rfm_data_final[i]
              IN  /\ o.M_Next # NaN
                  /\ Cardinality(NextRowsOf(l)) = 1
                  /\ o.R = l.R /\ o.F = l.F /\ o.M = l.M
                  /\ \A j \in NextRowsOf(l) : o.M_Next = rfm_data[j].M

\* One customer with transactions in both periods and another with one.
C3_Witness ==
    /\ pc = "done"
    /\ Len(rfm_data) = 2
    /\ Len(rfm_data_final) = 1
    /\ rfm_data_final[1].M_Next # rfm_data_final[1].M

\* C7: HalfYear is 1 for a timestamp before the cutoff day 2011-06-01 and 2
\* otherwise; any time on the cutoff day gives 2 and two timestamps of one
\* day get the same period.
C7_PeriodAssigner ==
    pc \in AfterPeriod =>
        \A i \in DOMAIN clean_data :
            LET r == clean_data[i]
            IN  /\ r.HalfYear \in {1, 2}
                /\ r.HalfYear = 1 <=> r.InvoiceDate < CutoffInstant
                /\ (r.InvoiceDate >= CutoffInstant
                    /\ r.InvoiceDate < DayAfterCutoff)
                   => r.HalfYear = 2
                /\ \A k \in DOMAIN clean_data :
                      (clean_data[k].InvoiceDate \div (24 * 60)
                       = r.InvoiceDate \div (24 * 60))
                      => clean_data[k].HalfYear = r.HalfYear

\* Midnight and noon of the cutoff day, both assigned period 2.
C7_Witness ==
    /\ pc = "groupby"
    /\ Len(clean_data) = 2
    /\ clean_data[1].InvoiceDate = Timestamp(2011, 6, 1, 0)
    /\ clean_data[2].InvoiceDate = Timestamp(2011, 6, 1, 720)
    /\ clean_data[1].HalfYear = 2
    /\ clean_data[2].HalfYear = 2

\* C8: every period-labelled transaction and every RFM row has
\* NextHalfYear = HalfYear + 1, and grouping by NextHalfYear as well adds no
\* group: there are as many RFM rows as (CustomerID, HalfYear) pairs.
C8_NextHalfYear ==
    /\ pc \in AfterPeriod =>
          \A i \in DOMAIN clean_data :
              clean_data[i].NextHalfYear = clean_data[i].HalfYear + 1
    /\ pc \in AfterGroupBy =>
          /\ \A j \in DOMAIN rfm_data :
                rfm_data[j].NextHalfYear = rfm_data[j].HalfYear + 1
          /\ Len(rfm_data)
             = Cardinality({<<clean_data[i].CustomerID, clean_data[i].HalfYear>> :
                               i \in DOMAIN clean_data})

\* RFM rows of both periods.
C8_Witness ==
    /\ pc = "recency"
    /\ Len(rfm_data) = 2
    /\ rfm_data[1].HalfYear = 1 /\ rfm_data[1].NextHalfYear = 2
    /\ rfm_data[2].HalfYear = 2 /\ rfm_data[2].NextHalfYear = 3

\* C9: R is the number of days from the date of the latest InvoiceDate of the
\* group to 2011-05-31 (period 1) or 2011-11-30 (period 2).
C9_Recency ==
    pc \in AfterRename =>
        \A j \in DOMAIN rfm_data :
            LET x == rfm_data[j]
                latest == LatestOver(GroupIndices(x.CustomerID, x.HalfYear))
                ref == IF x.HalfYear = 1 THEN LastDay1
                       ELSE LastDay2
            IN  x.R = ref - (latest \div (24 * 60))

\* A group whose two transactions are 91 days apart: R counts from the later.
C9_Witness ==
    /\ pc = "done"
    /\ Len(clean_data) = 2
    /\ clean_data[1].InvoiceDate = Timestamp(2011, 5, 31, 1439)
    /\ clean_data[2].InvoiceDate = Timestamp(2011, 3, 1, 0)
    /\ Len(rfm_data) = 1
    /\ rfm_data[1].R = 0

\* C10: R is never negative: no group's latest invoice date lies after the
\* reference date of its period.
C10_RecencyNonNegative ==
    /\ pc \in AfterRename =>
          \A j \in DOMAIN rfm_data : rfm_data[j].R >= 0
    /\ pc \in AfterGroupBy =>
          \A j \in DOMAIN rfm_data :
              LET x == rfm_data[j]
                  latest == LatestOver(GroupIndices(x.CustomerID, x.HalfYear))
              IN  (latest \div (24 * 60))
                  <= (IF x.HalfYear = 1 THEN LastDay1
                      ELSE LastDay2)

\* A period-2 group whose latest invoice is on the reference date itself.
C10_Witness ==
    /\ pc = "done"
    /\ \E j \in DOMAIN rfm_data :
          rfm_data[j].HalfYear = 2 /\ rfm_data[j].R = 0

(***************************************************************************)
(* Properties of the movie recommendations notebook (SpecRec).             *)
(***************************************************************************)
\* The number of log events of action a for the pair (m, u).
EventCount(m, u, a) ==
    Cardinality({i \in DOMAIN mdata :
                    /\ mdata[i].MovieId = m /\ mdata[i].UserId = u
                    /\ mdata[i].Action = a})

HasEvent(m, u) ==
    \E i \in DOMAIN mdata : mdata[i].MovieId = m /\ mdata[i].UserId = u

\* C4: every Rating lies in 0..10 and a row whose RawRating is the largest
\* of the table has Rating exactly 10 (Rating is the fraction num / den).
C4_RatingBounds ==
    (rpc = "done" /\ mdata # <<>>) =>
        \A j \in DOMAIN ratings :
            LET r == ratings[j]
            IN  /\ r.Rating.den > 0
                /\ 0 <= r.Rating.num
                /\ r.Rating.num <= 10 * r.Rating.den
                /\ (\A k \in DOMAIN ratings : ratings[k].RawRating <= r.RawRating)
                   => r.Rating.num = 10 * r.Rating.den

\* Two pairs with different raw ratings: one is rated 10, the other below.
C4_Witness ==
    /\ rpc = "done"
    /\ Len(ratings) = 2
    /\ ratings[1].RawRating = 15
    /\ ratings[2].RawRating = 150
    /\ ratings[2].Rating.num = 10 * ratings[2].Rating.den
    /\ ratings[1].Rating.num < 10 * ratings[1].Rating.den

\* C5: the ratings table has exactly one row for every (MovieId, UserId)
\* pair with a recorded action and none for any other pair.
C5_OneRowPerPair ==
    rpc = "done" =>
        /\ \A j \in DOMAIN ratings :
              ratings[j].MovieId \in Movies /\ ratings[j].UserId \in Users
        /\ \A m \in Movies, u \in Users :
              Cardinality({j \in DOMAIN ratings :
                              ratings[j].MovieId = m /\ ratings[j].UserId = u})
              = IF HasEvent(m, u) THEN 1 ELSE 0

\* Two users of one movie, one of them with two events.
C5_Witness ==
    /\ rpc = "done"
    /\ Len(mdata) = 3
    /\ Len(ratings) = 2
    /\ ratings[1].MovieId = ratings[2].MovieId

\* C6: RawRating = 100 * count(buy) + 50 * count(addToCart)
\* + 15 * count(details) for every pair of the table; two details and one
\* addToCart give 80, and Rating 10 when 80 is the largest raw rating.
C6_RawRating ==
    rpc = "done" =>
        \A j \in DOMAIN ratings :
            LET r == ratings[j]
            IN  /\ r.RawRating
                   = 100 * EventCount(r.MovieId, r.UserId, "buy")
                     + 50 * EventCount(r.MovieId, r.UserId, "addToCart")
                     + 15 * EventCount(r.MovieId, r.UserId, "details")
                /\ (/\ EventCount(r.MovieId, r.UserId, "details") = 2
                    /\ EventCount(r.MovieId, r.UserId, "addToCart") = 1
                    /\ EventCount(r.MovieId, r.UserId, "buy") = 0)
                   => /\ r.RawRating = 80
                      /\ (\A k \in DOMAIN ratings : ratings[k].RawRating <= 80)
                         => r.Rating = [num |-> 800, den |-> 80]

\* The example: two details and one addToCart of one pair.
C6_Witness ==
    /\ rpc = "done"
    /\ Len(ratings) = 1
    /\ EventCount(ratings[1].MovieId, ratings[1].UserId, "details") = 2
    /\ EventCount(ratings[1].MovieId, ratings[1].UserId, "addToCart") = 1
    /\ ratings[1].RawRating = 80
    /\ ratings[1].Rating = [num |-> 800, den |-> 80]

(***************************************************************************)
(* Further properties of the customer lifetime value notebook.             *)
(***************************************************************************)
\* C11: every RFM row has F >= 1 and M > 0.
C11_FrequencyMonetaryPositive ==
    pc \in AfterRename =>
        \A j \in DOMAIN rfm_data : rfm_data[j].F >= 1 /\ rfm_data[j].M > 0

\* A customer with two invoices in one period.
C11_Witness ==
    /\ pc = "done"
    /\ Len(rfm_data) = 1
    /\ rfm_data[1].F = 2
    /\ rfm_data[1].M = 20

\* The (CustomerID, HalfYear) pairs that have a filtered transaction.
PairsWithTransactions ==
    {<<clean_data[i].CustomerID, clean_data[i].HalfYear>> : i \in DOMAIN clean_data}

\* C12: rfm_data has exactly one row for every (CustomerID, HalfYear) pair
\* with a filtered transaction and none for any other pair.
C12_OneRowPerCustomerPeriod ==
    pc \in AfterGroupBy =>
        /\ \A j \in DOMAIN rfm_data :
              <<rfm_data[j].CustomerID, rfm_data[j].HalfYear>>
                  \in PairsWithTransactions
        /\ \A k \in PairsWithTransactions :
              Cardinality({j \in DOMAIN rfm_data :
                              /\ rfm_data[j].CustomerID = k[1]
                              /\ rfm_data[j].HalfYear = k[2]}) = 1

\* Two transactions of one group on different invoices give one row.
C12_Witness ==
    /\ pc = "done"
    /\ Len(clean_data) = 2
    /\ clean_data[1].InvoiceNo # clean_data[2].InvoiceNo
    /\ Len(rfm_data) = 1

PeriodsOf(c) ==
    {clean_data[i].HalfYear : i \in {k \in DOMAIN clean_data :
                                        clean_data[k].CustomerID = c}}

CustomersInBothPeriods ==
    {c \in {clean_data[i].CustomerID : i \in DOMAIN clean_data} :
        PeriodsOf(c) = {1, 2}}

\* C13: a customer whose filtered transactions lie in one period gets no
\* M_Next in the merge and no row in the labelled table (which has one row
\* per customer seen in both periods); the cells raise only when no
\* transaction is left at all.
C13_SinglePeriodDropped ==
    /\ pc = "dropnext" =>
          \A i \in DOMAIN rfm_data_final :
              Cardinality(PeriodsOf(rfm_data_final[i].CustomerID)) = 1
                  => rfm_data_final[i].M_Next = NaN
    /\ pc = "done" =>
          Len(rfm_data_final) = Cardinality(CustomersInBothPeriods)
    /\ pc = "error" => clean_data = <<>>

\* Two customers, each seen in one period only: an empty labelled table.
C13_Witness ==
    /\ pc = "done"
    /\ Len(rfm_data) = 2
    /\ rfm_data[1].CustomerID # rfm_data[2].CustomerID
    /\ rfm_data_final = <<>>

\* The transactions of the end-to-end example, in either order.
IsExampleRow1(r) ==
    /\ r.CustomerID = 1 /\ r.InvoiceDate = Timestamp(2011, 3, 1, 0)
    /\ r.Quantity = 2 /\ r.UnitPrice = 5

IsExampleRow2(r) ==
    /\ r.CustomerID = 1 /\ r.InvoiceDate = Timestamp(2011, 7, 10, 0)
    /\ r.Quantity = 1 /\ r.UnitPrice = 20

IsExample ==
    /\ Len(clean_data) = 2
    /\ clean_data[1].InvoiceNo # clean_data[2].InvoiceNo
    /\ \/ IsExampleRow1(clean_data[1]) /\ IsExampleRow2(clean_data[2])
       \/ IsExampleRow2(clean_data[1]) /\ IsExampleRow1(clean_data[2])

\* C14: for (C1, 2011-03-01, 2, 5) and (C1, 2011-07-10, 1, 20) on distinct
\* invoices there are two RFM rows (period 1 with M = 10, period 2 with
\* M = 20) and one training row with R = 91 (the days from 2011-03-01 to
\* 2011-05-31), F = 1, M = 10 and M_Next = 20.
C14_EndToEndExample ==
    (pc = "done" /\ IsExample) =>
        /\ Len(rfm_data) = 2
        /\ rfm_data[1].CustomerID = 1 /\ rfm_data[1].HalfYear = 1
        /\ rfm_data[1].M = 10
        /\ rfm_data[2].CustomerID = 1 /\ rfm_data[2].HalfYear = 2
        /\ rfm_data[2].M = 20
        /\ rfm_data_final = <<[R |-> 91, F |-> 1, M |-> 10, M_Next |-> 20]>>

C14_Witness ==
    /\ pc = "done"
    /\ IsExample
    /\ rfm_data_final = <<[R |-> 91, F |-> 1, M |-> 10, M_Next |-> 20]>>

IsCleanRow(r) ==
    /\ r.CustomerID # NaN
    /\ r.InvoiceDate < WindowEndInstant
    /\ 0 < r.Quantity /\ r.Quantity < 30
    /\ 0 < r.UnitPrice /\ r.UnitPrice < 30

\* C18: the cleaning cells always have a next step and never raise; rows
\* without CustomerID or with a non-positive quantity or price are left out,
\* every other row of the window stays, and after the first cell no table
\* has a row without CustomerID.  A cell raises only after the filter has
\* run to its end with no row left.
C18_CleaningTotal ==
    /\ pc \in {"dropna", "window", "positive", "quantity", "unitprice"}
          => ENABLED NextCLV
    /\ pc # "dropna" =>
          /\ \A i \in DOMAIN data : data[i].CustomerID # NaN
          /\ \A i \in DOMAIN clean_data : clean_data[i].CustomerID # NaN
          /\ \A i \in DOMAIN rfm_data : rfm_data[i].CustomerID # NaN
          /\ pc = "dropnext" =>
                \A i \in DOMAIN rfm_data_final :
                    rfm_data_final[i].CustomerID # NaN
    /\ pc \in AfterOutlierFilter =>
          /\ \A i \in DOMAIN clean_data :
                clean_data[i].Quantity > 0 /\ clean_data[i].UnitPrice > 0
          /\ Len(clean_data)
             = Cardinality({i \in DOMAIN csv : IsCleanRow(csv[i])})
    /\ pc = "error" =>
          /\ clean_data = <<>>
          /\ \A i \in DOMAIN csv : ~IsCleanRow(csv[i])

\* A row without CustomerID and a row with a non-positive quantity have been
\* left out and the next cell is about to run.
C18_Witness ==
    /\ pc = "period"
    /\ Len(csv) = 2
    /\ csv[1].CustomerID = NaN
    /\ csv[2].Quantity <= 0
    /\ data = <<csv[2]>>
    /\ clean_data = <<>>

\* C19 as stated: when the first cell has dropped rows without CustomerID, or
\* the positive filter has dropped rows, the number of dropped rows has been
\* recorded.
C19_DroppedCountLogged ==
    /\ (pc = "window" /\ Len(data) < Len(csv))
          => (Len(csv) - Len(data)) \in Range(logged)
    /\ (pc = "quantity" /\ Len(clean_data) < Len(data))
          => (Len(data) - Len(clean_data)) \in Range(logged)

(***************************************************************************)
(* Further properties of the movie recommendations notebook.               *)
(***************************************************************************)
\* C15 as stated: an empty action log never gets a ratings table; the cells
\* stop with an error instead.
C15_EmptyLogFailsFast ==
    mdata = <<>> => rpc # "done"

C20_ConsumeAfterTerminal ==
    /\ (rpc \in {"download", "load", "finished"} \/ model_file
           \/ algo # "none") => run \in Terminal
    /\ (pc \in {"get_output", "finished"} \/ fitted_model # "none")
           => local_run \in Terminal

C20_Witness ==
    /\ rpc = "finished"
    /\ model_file
    /\ algo = "loaded"
    /\ run = "completed"
(***************************************************************************)
(* C21: the training job is submitted at most once and a failed job is     *)
(* surfaced, not resubmitted: a run starts only when no run has been       *)
(* submitted before, and once a run has failed the notebook does not get   *)
(* past the call that waits for it except into the error state.            *)
(***************************************************************************)
C21_NoRetry ==
    [][/\ (run' = "running" /\ run # "running") => run = "none"
       /\ (local_run' = "running" /\ local_run # "running")
              => local_run = "none"
       /\ run = "failed" => rpc' \in {"wait", "error"}
       /\ local_run = "failed" => pc' \in {"submitting", "get_output", "error"}
      ]_vars

C21_Witness ==
    /\ run = "failed"
    /\ rpc = "error"
    /\ ~model_file

C26_ClusterGetOrCreate ==
    [][/\ cpu_cluster' # cpu_cluster =>
             /\ cpu_cluster' = "created" <=> cluster = "absent"
             /\ cpu_cluster' = "found" <=> cluster # "absent"
             /\ cluster # "absent" => cluster' = cluster
       /\ cluster' = "creating" => cluster = "creating" \/ cluster = "absent"
       /\ target' # target => cluster \in Provisioned /\ target' = cpu_cluster
       /\ (run' = "running" /\ run = "none") =>
             /\ cluster \in Provisioned
             /\ target = cpu_cluster /\ target # "none"
      ]_vars

C26_Witness ==
    /\ cpu_cluster = "created"
    /\ cluster = "ready"
    /\ target = "created"
    /\ run = "running"
(***************************************************************************)
(* Further properties of the rating cells (SpecRec).                       *)
(***************************************************************************)
\* C22: no Rating exists before the raw-rating loop has ended; when the
\* table exists every pair has its raw rating, max_rating is the largest of
\* them and every Rating is 10 * RawRating over that max_rating.
C22_TwoPassNormalization ==
    /\ rpc \in {"counts", "agg_start", "agg_loop", "raw_loop"} => ratings = <<>>
    /\ rpc = "done" =>
          /\ Len(raw_ratings) = Len(Pairs(agg_data))
          /\ \A j \in DOMAIN raw_ratings : raw_ratings[j][3] <= max_rating
          /\ raw_ratings # <<>> =>
                \E j \in DOMAIN raw_ratings : raw_ratings[j][3] = max_rating
          /\ Len(ratings) = Len(raw_ratings)
          /\ \A j \in DOMAIN ratings :
                ratings[j].Rating
                    = [num |-> 10 * raw_ratings[j][3], den |-> max_rating]

\* The first row has the smaller raw rating: its Rating is below 10.
C22_Witness ==
    /\ rpc = "done"
    /\ Len(ratings) = 2
    /\ ratings[1].RawRating = 50
    /\ ratings[2].RawRating = 100
    /\ ratings[1].Rating = [num |-> 500, den |-> 100]

MaxOf(S) == CHOOSE v \in S : \A w \in S : w <= v

\* C24: in and after the raw-rating loop max_rating is the maximum of 0 and
\* the raw ratings appended so far, pos - 1 of them inside the loop.
C24_RunningMaximum ==
    rpc \in {"raw_loop", "done"} =>
        /\ max_rating
           = MaxOf({0} \cup {raw_ratings[j][3] : j \in DOMAIN raw_ratings})
        /\ rpc = "raw_loop" => Len(raw_ratings) = pos - 1

\* The second raw rating is smaller than the first and the maximum stays.
C24_Witness ==
    /\ rpc = "raw_loop"
    /\ Len(raw_ratings) = 2
    /\ raw_ratings[2][3] < raw_ratings[1][3]
    /\ max_rating = raw_ratings[1][3]

\* Whether the index entry (m, u, a) is among the first n entries of counts.
Processed(m, u, a, n) ==
    \E k \in 1..n : k \in DOMAIN counts /\ counts[k].key = <<m, u, a>>

\* C25: after the agg_data loop the counter of every pair present and every
\* action of buy, addToCart, details is the number of log events of that
\* pair and action; inside the loop it is that number for the index
\* entries processed and 0 for the others, so no counter is reset; two
\* pairs never share a counter dict.
C25_CountAggregation ==
    LET ps == Pairs(agg_data)
    IN  /\ rpc \in {"raw_loop", "done"} =>
              \A j \in DOMAIN ps : \A a \in {"buy", "addToCart", "details"} :
                  heap[ps[j][3]][a] = EventCount(ps[j][1], ps[j][2], a)
        /\ rpc = "agg_loop" =>
              \A j \in DOMAIN ps : \A a \in {"buy", "addToCart", "details"} :
                  heap[ps[j][3]][a]
                  = IF Processed(ps[j][1], ps[j][2], a, pos - 1)
                    THEN EventCount(ps[j][1], ps[j][2], a) ELSE 0
        /\ rpc \in {"agg_loop", "raw_loop", "done"} =>
              \A j, k \in DOMAIN ps : ps[j][3] = ps[k][3] => j = k

\* One pair with one buy and two details.
C25_Witness ==
    /\ rpc = "done"
    /\ Len(Pairs(agg_data)) = 1
    /\ heap[Pairs(agg_data)[1][3]]
       = [buy |-> 1, addToCart |-> 0, details |-> 2]

HasUnknownAction ==
    \E i \in DOMAIN mdata :
        mdata[i].Action \notin {"buy", "addToCart", "details"}

\* C28: with an event of another action in the log the aggregation loop
\* ends in the error state at the first index entry of such an action: the
\* raw-rating loop is not reached, no ratings table exists and no counter
\* dict has a fourth key; train.py fails on exactly these logs.
C28_UnknownActionRaises ==
    /\ HasUnknownAction => rpc \notin {"raw_loop", "done"} /\ ratings = <<>>
    /\ \A h \in DOMAIN heap : DOMAIN heap[h] = {"buy", "addToCart", "details"}
    /\ rpc = "error" =>
          /\ pos \in DOMAIN counts
          /\ counts[pos].key[3] \notin {"buy", "addToCart", "details"}
          /\ \A k \in 1..(pos - 1) :
                counts[k].key[3] \in {"buy", "addToCart", "details"}
    /\ rpc = "counts" => (HasUnknownAction <=> ~TrainScript(mdata).ok)

\* A buy has been counted and the next index entry is a play.
C28_Witness ==
    /\ rpc = "error"
    /\ pos = 2
    /\ counts[1].key[3] = "buy"
    /\ counts[2].key[3] = "play"
    /\ ratings = <<>>

\* C29: every row has RawRating >= 15 and a Rating above 0, and a row with
\* the smaller RawRating has the smaller Rating.
C29_RatingPositive ==
    rpc = "done" =>
        /\ \A j \in DOMAIN ratings :
              /\ ratings[j].RawRating >= 15
              /\ ratings[j].Rating.den > 0
              /\ ratings[j].Rating.num > 0
        /\ \A j, k \in DOMAIN ratings :
              ratings[j].RawRating < ratings[k].RawRating
              <=> ratings[j].Rating.num * ratings[k].Rating.den
                  < ratings[k].Rating.num * ratings[j].Rating.den

\* A pair with one details event next to a pair with two.
C29_Witness ==
    /\ rpc = "done"
    /\ Len(ratings) = 2
    /\ ratings[1].RawRating = 15
    /\ ratings[2].RawRating = 30
    /\ ratings[1].Rating = [num |-> 150, den |-> 30]
(***************************************************************************)
(* C27: the merge gives one row per RFM row; a row has an M_Next only if   *)
(* it is a period 1 row matched with the period 2 row of its customer (a   *)
(* period 2 row has NextHalfYear 3 and matches nothing), so there is at    *)
(* most one labelled row per customer and their number is the number of    *)
(* customers with filtered transactions in both periods.                   *)
(***************************************************************************)
C27_NoCrossProduct ==
    /\ pc = "dropnext" =>
          LET labelled == {i \in DOMAIN rfm_data_final :
                              rfm_data_final[i].M_Next # NaN}
          IN  /\ Len(rfm_data_final) = Len(rfm_data)
              /\ \A i \in labelled :
                    /\ rfm_data_final[i].HalfYear = 1
                    /\ rfm_data_final[i].HalfYear_Next = 2
              /\ \A i \in DOMAIN rfm_data_final :
                    rfm_data_final[i].HalfYear = 2 =>
                        /\ rfm_data_final[i].NextHalfYear = 3
                        /\ i \notin labelled
              /\ \A i, j \in labelled :
                    rfm_data_final[i].CustomerID = rfm_data_final[j].CustomerID
                        => i = j
              /\ Cardinality(labelled) = Cardinality(CustomersInBothPeriods)
    /\ pc = "done" =>
          Len(rfm_data_final)
              <= Cardinality({clean_data[i].CustomerID : i \in DOMAIN clean_data})

\* The two period rows of one customer: the first is labelled, the second
\* matches nothing.
C27_Witness ==
    /\ pc = "dropnext"
    /\ Len(rfm_data_final) = 2
    /\ rfm_data_final[1].CustomerID = rfm_data_final[2].CustomerID
    /\ rfm_data_final[1].M_Next # NaN
    /\ rfm_data_final[2].HalfYear = 2
    /\ rfm_data_final[2].M_Next = NaN
(***************************************************************************)
(* C30: after the count-aggregation cell or the raw-rating cell has been   *)
(* executed again, any number of times and in any order, agg_data,         *)
(* raw_ratings and max_rating have the values of the first execution       *)
(* whenever the cell that assigns them has ended.                          *)
(***************************************************************************)
C30_ReexecutionSameValues ==
    reruns > 0 =>
        /\ (rpc = "done" \/ RawCellEnded) =>
              /\ raw_ratings = first.raw
              /\ max_rating = first.max
        /\ (rpc \in {"raw_loop", "done"} \/ AggCellEnded) =>
              Deref(agg_data, heap) = first.agg

\* Both cells have been executed again, the log has a pair with two actions.
C30_Witness ==
    /\ reruns = 2
    /\ rpc = "done"
    /\ Len(raw_ratings) = 2
    /\ max_rating = 115
    /\ raw_ratings = first.raw
    /\ Deref(agg_data, heap) = first.agg
    /\ Len(heap) > 2
====
